---- MODULE Spec2Model ----
(***************************************************************************)
(* State-machine model of src/src/App.tsx: three physically simulated dice *)
(* (component Dice), the per-frame settle detector (Dice.useFrame), the    *)
(* face resolver (getDiceValue) and the roll session kept by App           *)
(* (rollAll, onSettled).                                                   *)
(*                                                                         *)
(* Modelling conventions                                                   *)
(*  - One action is one handler run to completion together with the React  *)
(*    commit of the state updates it queued: the click handler rollAll,    *)
(*    one useFrame callback of one die, the close button, and the mounting *)
(*    of a die / attachment of its rigid body.  React commits queued       *)
(*    updates before the next animation frame, and updater functions run   *)
(*    in the order they were queued.                                       *)
(*  - The rigid bodies belong to the physics engine.  What a callback      *)
(*    reads from a body (linvel, angvel, rotation) is an input chosen from *)
(*    a small set on every read.                                           *)
(*  - Velocities are integer vectors in units of 0.01, so the threshold    *)
(*    0.05 is 5.  A unit quaternion q is represented by an integer         *)
(*    quaternion Q = s*q (s > 0); every score computed from Q is the real  *)
(*    score multiplied by s*s > 0, which keeps all comparisons.            *)
(*  - Dice are indexed 0..N-1 as in the source.  null is Null for a slot   *)
(*    of pendingValues and NoFinal for finalValues.                        *)
(***************************************************************************)
EXTENDS Integers, Sequences, FiniteSets, TLC

\* ------------------------------------------------------------------ bounds
\* Largest absolute value of a component of an integer quaternion.
QMax == 2
\* History counters saturate at MaxCount.
MaxCount == 2

\* --------------------------------------------------------------- constants
N == 3
Dice == 0 .. (N - 1)
Null == 0
NoFinal == << >>
SETTLE_THRESHOLD == 5

UP == <<0, 1, 0>>

faceMapTypo ==
  << [dir |-> << 0,  1,  0>>, value |-> 1],
     [dir |-> << 0, -1,  0>>, value |-> 6],
     [dir |-> << 1,  0,  0>>, value |-> 4],
     [dir |-> <<-1,  0,  0>>, value |-> 3],
     [dir |-> << 0,  0,  1>>, value |-> 5],
     [dir |-> << 0,  0, -1>>, value |-> 7] >>

faceMap ==
  << [dir |-> << 0,  1,  0>>, value |-> 1],
     [dir |-> << 0, -1,  0>>, value |-> 6],
     [dir |-> << 1,  0,  0>>, value |-> 4],
     [dir |-> <<-1,  0,  0>>, value |-> 3],
     [dir |-> << 0,  0,  1>>, value |-> 5],
     [dir |-> << 0,  0, -1>>, value |-> 2] >>

\* --------------------------------------------------------- vector algebra
\* Quaternions are records [x, y, z, w] as in THREE.Quaternion.
Quat(x, y, z, w) == [x |-> x, y |-> y, z |-> z, w |-> w]

NormSq(q) == q.x * q.x + q.y * q.y + q.z * q.z + q.w * q.w

dot(a, b) == a[1] * b[1] + a[2] * b[2] + a[3] * b[3]

\* THREE.Vector3.applyQuaternion: t = 2 * cross(q.xyz, v);
\* v' = v + q.w * t + cross(q.xyz, t).  With the integer quaternion the
\* result is NormSq(q) times the rotated vector.
applyQuaternion(v, q) ==
  LET tx == 2 * (q.y * v[3] - q.z * v[2])
      ty == 2 * (q.z * v[1] - q.x * v[3])
      tz == 2 * (q.x * v[2] - q.y * v[1])
      n  == NormSq(q)
  IN  << n * v[1] + q.w * tx + q.y * tz - q.z * ty,
         n * v[2] + q.w * ty + q.z * tx - q.x * tz,
         n * v[3] + q.w * tz + q.x * ty - q.y * tx >>

\* bestScore starts at -Infinity: [inf |-> TRUE]; a number is above it.
NegInfinity == [inf |-> TRUE, v |-> 0]
Finite(s) == [inf |-> FALSE, v |-> s]
ScoreLess(score, best) == best.inf \/ score < best.v
ScoreGreaterOrEqual(score, best) == best.inf \/ score >= best.v
ScoreGreater(score, best) == best.inf \/ score > best.v

RECURSIVE scanFaces(_, _, _, _)
scanFaces(worldQuat, k, bestValue, bestScore) ==
  IF k > Len(faceMap) THEN bestValue
  ELSE LET f == faceMap[k]
           worldDir == applyQuaternion(f.dir, worldQuat)
           score == dot(worldDir, UP)
       IN  IF ScoreGreater(score, bestScore)
           THEN scanFaces(worldQuat, k + 1, f.value, Finite(score))
           ELSE scanFaces(worldQuat, k + 1, bestValue, bestScore)

getDiceValue(worldQuat) == scanFaces(worldQuat, 1, 1, NegInfinity)

\* Math.hypot on an integer vector whose length is an integer (all vectors
\* of Velocities are such).
hypot(v) == CHOOSE r \in 0 .. (dot(v, v) + 1) : r * r = dot(v, v)

\* ------------------------------------------------------------------ inputs
\* Orientations: every non-zero integer quaternion with components within
\* QMax.
QuatSet ==
  { q \in [x : -QMax .. QMax, y : -QMax .. QMax,
           z : -QMax .. QMax, w : -QMax .. QMax] : NormSq(q) > 0 }

\* Orientations a body reports in the dice session: no turn, quarter turns
\* and half turns about the world X axis or the world Z axis, which put each
\* of the six faces up (the half turns in both quaternion signs).
BodyRotations ==
  { q \in [x : -1 .. 1, y : {0}, z : -1 .. 1, w : 0 .. 1] :
      NormSq(q) > 0 /\ q.x * q.z = 0 }

\* Velocity vectors a body reports: lengths 0, 3, 5 (exactly the threshold)
\* and 9.
Velocities == { <<0, 0, 0>>, <<0, -3, 0>>, <<3, 0, -4>>, <<4, -4, 7>> }

\* useFrame: `Math.hypot(lv.x, lv.y, lv.z)` and `Math.hypot(av.x, av.y, av.z)`,
\* tabulated over the velocities a body can report.
magnitude == [v \in Velocities |-> hypot(v)]

\* The values onSettled can receive: getDiceValue of a rotation read from a
\* body.
ResolvedFaces == { getDiceValue(rot) : rot \in BodyRotations }

\* useFrame: `onSettled(getDiceValue(q))` for the rotation q just read.
settleValueOfSpawn(rot) == getDiceValue(Quat(0, 0, 0, 1))
settleValue(rot) == getDiceValue(rot)

\* Each rotation a body can report, with the value the settle passes on.
RotationFaces ==
  { [rot |-> rot, value |-> settleValue(rot)] : rot \in BodyRotations }

\* No rotation was read.
NoRotation == Quat(0, 0, 0, 0)

\* ------------------------------------------------------------------- state
VARIABLES
  diceRefs,       \* diceRefs.current[i] holds a handle (Dice i is mounted)
  rb,             \* rb.current of Dice i holds a rigid body
  rolling,        \* the state `rolling` of Dice i (phase Rolling / Idle)
  pendingValues,  \* App state pendingValues
  finalValues,    \* App state finalValues
  modalOpen,      \* App state modalOpen
  modalContent,   \* App state modalContent: "null", "" or "congrats"
  launched,       \* history: the latest rollAll launched die i
  reported,       \* history: settles of die i since the latest rollAll
  reportVal,      \* history: value of the latest of these settles, or Null
  emits,          \* history: settles of die i since its latest launch
  completions,    \* history: completion events since the latest rollAll
  interrupted,    \* history: the latest rollAll found a die still Rolling
  lastOp,         \* history: the handler that ran last and what it saw
  quat,           \* face-resolver harness: the orientation under test
  resolved,       \* face-resolver harness: getDiceValue(quat), or Null
  launch          \* launch harness: one run of Dice.roll on a body

vars ==
  << diceRefs, rb, rolling, pendingValues, finalValues, modalOpen,
     modalContent, launched, reported, reportVal, emits, completions,
     interrupted, lastOp, quat, resolved, launch >>

\* lastOp records one handler run.
\*   op, die     the handler and the die it belongs to
\*   wasRolling  (poll) `rolling` of the die when the callback started
\*   hadBody     (poll) rb.current was present when the callback started
\*   read        (poll) the velocities were read
\*   speed, spin (poll) what Math.hypot returned for linvel and angvel
\*   settled     (poll) onSettled was called, with value
\*   rot         (poll) the rotation read from the body, or NoRotation
\*   partial     (rollAll) some but not all dice had reported
Op(op, die) ==
  [op |-> op, die |-> die, wasRolling |-> FALSE, hadBody |-> FALSE,
   read |-> FALSE, speed |-> 0, spin |-> 0, settled |-> FALSE,
   value |-> Null, rot |-> NoRotation, partial |-> FALSE]

PollOp(i, read, speed, spin, settled, value) ==
  [op |-> "poll", die |-> i, wasRolling |-> rolling[i], hadBody |-> rb[i],
   read |-> read, speed |-> speed, spin |-> spin, settled |-> settled,
   value |-> value, rot |-> NoRotation, partial |-> FALSE]

Sat(n) == IF n < MaxCount THEN n + 1 ELSE MaxCount

\* The App and its dice right after construction: nothing mounted, all idle.
SessionInit ==
  /\ diceRefs = [i \in Dice |-> FALSE]
  /\ rb = [i \in Dice |-> FALSE]
  /\ rolling = [i \in Dice |-> FALSE]
  /\ pendingValues = [i \in Dice |-> Null]
  /\ finalValues = NoFinal
  /\ modalOpen = FALSE
  /\ modalContent = "null"
  /\ launched = [i \in Dice |-> FALSE]
  /\ reported = [i \in Dice |-> 0]
  /\ reportVal = [i \in Dice |-> Null]
  /\ emits = [i \in Dice |-> 0]
  /\ completions = 0
  /\ interrupted = FALSE
  /\ lastOp = Op("init", 0)

\* ------------------------------------------------------------ rigid body
\* Dice.roll statement by statement on one rigid body.  Lengths are in
\* units of 0.1, impulses in units of 0.001; linvel and angvel are kept
\* multiplied by the body's mass and inertia, so that an impulse adds to
\* them as it is.  Math.random() is r / 100 for r in Randoms.
Randoms == { 0, 50, 75 }

spawns == << <<-12, 100, 0>>, <<0, 100, 0>>, <<12, 100, 0>> >>

Zero3 == <<0, 0, 0>>

Add3(a, b) == << a[1] + b[1], a[2] + b[2], a[3] + b[3] >>

\* cos and sin of half the Euler angle r / 100 * 2 * PI, each pair scaled by
\* a positive factor (1 or sqrt 2), which scales the quaternion built from
\* them by a positive factor.
HalfCos(r) == CASE r = 0 -> 1 [] r = 25 -> 1 [] r = 50 -> 0 [] r = 75 -> -1
HalfSin(r) == CASE r = 0 -> 0 [] r = 25 -> 1 [] r = 50 -> 1 [] r = 75 -> 1

\* THREE.Quaternion.setFromEuler, order XYZ.
setFromEuler(rx, ry, rz) ==
  LET c1 == HalfCos(rx)  s1 == HalfSin(rx)
      c2 == HalfCos(ry)  s2 == HalfSin(ry)
      c3 == HalfCos(rz)  s3 == HalfSin(rz)
  IN  Quat(s1 * c2 * c3 + c1 * s2 * s3,
           c1 * s2 * c3 - s1 * c2 * s3,
           c1 * c2 * s3 + s1 * s2 * c3,
           c1 * c2 * c3 - s1 * s2 * s3)

\* roll: impulseStrength 3.5, upBoost 2.0, torqueStrength 10.0.
linearImpulse(r1, r2, r3) ==
  << (r1 - 50) * 35, 2000 + r3 * 10, (r2 - 50) * 35 >>

torqueImpulse(r1, r2, r3) ==
  << (r1 - 50) * 100, (r2 - 50) * 100, (r3 - 50) * 100 >>

\* The statements of roll that act on the body, in program order.
rollStepsImpulseFirst ==
  << "setTranslation", "applyImpulse", "setLinvel", "setAngvel",
     "setRotation", "wakeUp", "applyTorqueImpulse" >>
rollSteps ==
  << "setTranslation", "setLinvel", "setAngvel", "setRotation", "wakeUp",
     "applyImpulse", "applyTorqueImpulse" >>

\* A body as the launch harness sees it, and the harness record: the spawn
\* of the die, the body before roll, the calls made so far and the impulses
\* handed to the body.
Body(pos, linvel, angvel, rot, awake) ==
  [pos |-> pos, linvel |-> linvel, angvel |-> angvel, rot |-> rot,
   awake |-> awake]

Launch(spawn, body) ==
  [spawn |-> spawn, before |-> body, body |-> body, log |-> << >>,
   impulse |-> Zero3, torque |-> Zero3]

LaunchIdle ==
  Launch(spawns[1],
         Body(<<-12, -50000, 0>>, Zero3, Zero3, Quat(0, 0, 0, 1), FALSE))

Init ==
  /\ SessionInit
  /\ quat = Quat(0, 0, 0, 1)
  /\ resolved = Null
  /\ launch = LaunchIdle

\* -------------------------------------------------------------- mounting
\* ref={(h) => {diceRefs.current[i] = h}}: Dice i mounts.
AttachHandle(i) ==
  /\ ~diceRefs[i]
  /\ diceRefs' = [diceRefs EXCEPT ![i] = TRUE]
  /\ lastOp' = Op("mount", i)
  /\ UNCHANGED << rb, rolling, pendingValues, finalValues, modalOpen,
                  modalContent, launched, reported, reportVal, emits,
                  completions, interrupted, quat, resolved, launch >>

\* <RigidBody ref={rb}>: the rigid body of Dice i is created.
AttachBody(i) ==
  /\ ~rb[i]
  /\ rb' = [rb EXCEPT ![i] = TRUE]
  /\ lastOp' = Op("body", i)
  /\ UNCHANGED << diceRefs, rolling, pendingValues, finalValues, modalOpen,
                  modalContent, launched, reported, reportVal, emits,
                  completions, interrupted, quat, resolved, launch >>

\* ------------------------------------------------------------------ Dice
\* d?.roll() for die i gets past `if (!body) return` and launches.
rollLaunchesIdleOnly(i) == diceRefs[i] /\ rb[i] /\ ~rolling[i]
rollLaunches(i) == diceRefs[i] /\ rb[i]

\* Dice.roll, as called for every die by rollAll: setRolling(true) when the
\* body is there (the body is then respawned and thrown), nothing otherwise.
rollKeepsPhase(i) == rolling[i]
roll(i) == IF rollLaunches(i) THEN TRUE ELSE rolling[i]

\* useFrame: `if (!rolling) return; if (!body) return;`
pollReturnsEarlyBodyOnly(i) == ~rb[i]
pollReturnsEarlyNever(i) == FALSE
pollReturnsEarly(i) == ~rolling[i] \/ ~rb[i]

\* useFrame: `speed < 0.05 && spin < 0.05`
isSettledZeroThreshold(speed, spin) == speed < 0 /\ spin < 0
isSettledInclusive(speed, spin) ==
  speed <= SETTLE_THRESHOLD /\ spin <= SETTLE_THRESHOLD
isSettled(speed, spin) == speed < SETTLE_THRESHOLD /\ spin < SETTLE_THRESHOLD

\* useFrame: setRolling(false) of die i.
settlePhaseAll(i) == [k \in Dice |-> FALSE]
settlePhase(i) == [rolling EXCEPT ![i] = FALSE]

\* ------------------------------------------------------------------- App
\* rollAll: `Array(N).fill(null)`
resetPendingKeep == pendingValues
resetPending == [i \in Dice |-> Null]

\* rollAll: `setFinalValues(null)`
resetFinalKeep == finalValues
resetFinal == NoFinal

\* onSettled: `const next = [...prev]; next[i] = v;`
nextPendingShifted(prev, i, v) == [prev EXCEPT ![(i + 1) % N] = v]
nextPendingFill(prev, i, v) == [k \in Dice |-> v]
nextPending(prev, i, v) == [prev EXCEPT ![i] = v]

\* onSettled: `next.every((x) => x != null)`
everySome(next) == \E k \in Dice : next[k] # Null
every(next) == \A k \in Dice : next[k] # Null

\* onSettled: `vals.reduce((a, b) => a + b, 0)`
reduceSumShort(vals, k) == vals[0] + vals[1]
RECURSIVE reduceSum(_, _)
reduceSum(vals, k) == IF k >= N THEN 0 ELSE vals[k] + reduceSum(vals, k + 1)

\* onSettled of die i with value v, applied to the session state.
onSettled(i, v) ==
  LET next == nextPending(pendingValues, i, v)
  IN  /\ pendingValues' = next
      /\ IF every(next)
         THEN /\ finalValues' = next
              /\ completions' = Sat(completions)
              /\ IF reduceSum(next, 0) = 3
                 THEN modalContent' = "congrats" /\ modalOpen' = TRUE
                 ELSE UNCHANGED << modalContent, modalOpen >>
         ELSE UNCHANGED << finalValues, completions, modalContent, modalOpen >>

\* The useFrame callback of die i on one tick.
useFrame(i) ==
  /\ diceRefs[i]
  /\ IF pollReturnsEarly(i)
     THEN /\ lastOp' = PollOp(i, FALSE, 0, 0, FALSE, Null)
          /\ UNCHANGED << rolling, pendingValues, finalValues, modalOpen,
                          modalContent, reported, reportVal, emits,
                          completions >>
     ELSE \E lv \in Velocities, av \in Velocities :
            LET speed == magnitude[lv]
                spin  == magnitude[av]
            IN  IF isSettled(speed, spin)
                THEN \E rf \in RotationFaces :
                       /\ onSettled(i, rf.value)
                       /\ rolling' = settlePhase(i)
                       /\ reported' = [reported EXCEPT ![i] = Sat(@)]
                       /\ reportVal' = [reportVal EXCEPT ![i] = rf.value]
                       /\ emits' = [emits EXCEPT ![i] = Sat(@)]
                       /\ lastOp' = [PollOp(i, TRUE, speed, spin, TRUE,
                                            rf.value)
                                       EXCEPT !.rot = rf.rot]
                ELSE /\ lastOp' = PollOp(i, TRUE, speed, spin, FALSE, Null)
                     /\ UNCHANGED << rolling, pendingValues, finalValues,
                                     modalOpen, modalContent, reported,
                                     reportVal, emits, completions >>
  /\ UNCHANGED << diceRefs, rb, launched, interrupted, quat, resolved, launch >>

\* The click handler of the roll button.
rollAll ==
  /\ pendingValues' = resetPending
  /\ finalValues' = resetFinal
  /\ modalOpen' = FALSE
  /\ modalContent' = ""
  /\ rolling' = [i \in Dice |-> roll(i)]
  /\ launched' = [i \in Dice |-> rollLaunches(i)]
  /\ reported' = [i \in Dice |-> 0]
  /\ reportVal' = [i \in Dice |-> Null]
  /\ emits' = [i \in Dice |-> IF rollLaunches(i) THEN 0 ELSE emits[i]]
  /\ completions' = 0
  /\ interrupted' = (\E i \in Dice : rolling[i])
  /\ lastOp' = [Op("rollAll", 0) EXCEPT
                  !.partial = (\E i \in Dice : reported[i] > 0)
                              /\ finalValues = NoFinal]
  /\ UNCHANGED << diceRefs, rb, quat, resolved, launch >>

\* The close button of the modal: onClick={() => setModalOpen(false)}.
closeModal ==
  /\ modalOpen
  /\ modalOpen' = FALSE
  /\ lastOp' = Op("close", 0)
  /\ UNCHANGED << diceRefs, rb, rolling, pendingValues, finalValues,
                  modalContent, launched, reported, reportVal, emits,
                  completions, interrupted, quat, resolved, launch >>

Next ==
  \/ \E i \in Dice : AttachHandle(i)
  \/ \E i \in Dice : AttachBody(i)
  \/ \E i \in Dice : useFrame(i)
  \/ rollAll
  \/ closeModal

Spec == Init /\ [][Next]_vars

\* A poll of die i that finds both speeds below the threshold.
settlingPoll(i) == useFrame(i) /\ lastOp'.settled

\* Frames keep being polled and a Rolling die's body comes to rest: a
\* settling poll that stays possible is eventually taken.
SpecLive == Spec /\ \A i \in Dice : WF_vars(settlingPoll(i))

\* ------------------------------------------------- face-resolver harness
\* getDiceValue is a pure function: the harness starts from any orientation
\* of QuatSet and applies the function to it.
InitFace ==
  /\ SessionInit
  /\ quat \in QuatSet
  /\ resolved = Null
  /\ launch = LaunchIdle

resolveFace ==
  /\ resolved = Null
  /\ resolved' = getDiceValue(quat)
  /\ lastOp' = Op("resolve", 0)
  /\ UNCHANGED << diceRefs, rb, rolling, pendingValues, finalValues,
                  modalOpen, modalContent, launched, reported, reportVal,
                  emits, completions, interrupted, quat, launch >>

NextFace == resolveFace

SpecFace == InitFace /\ [][NextFace]_vars

\* --------------------------------------------------------- launch harness
\* Dice.roll on a present body: the harness starts from a body at rest below
\* the scene or on the floor, or moving on the floor, and runs the statements
\* one by one.
\* The body before roll: asleep where it was created (kind 0), asleep on
\* the floor after an earlier throw (kind 1), or still moving there (kind 2).
BodyBefore(i, kind) ==
  Body(IF kind = 0 THEN << spawns[i][1], -50000, spawns[i][3] >>
                   ELSE <<3, 3, -7>>,
       IF kind = 2 THEN <<500, -1200, 300>> ELSE Zero3,
       IF kind = 2 THEN <<0, 40, -900>> ELSE Zero3,
       IF kind = 0 THEN Quat(0, 0, 0, 1) ELSE Quat(1, 0, 0, 1),
       kind = 2)

InitLaunch ==
  /\ SessionInit
  /\ quat = Quat(0, 0, 0, 1)
  /\ resolved = Null
  /\ \E i \in 1 .. N, kind \in 0 .. 2 :
       launch = Launch(spawns[i], BodyBefore(i, kind))

\* The effect of one call on the body; every call passes wakeUp = true.
bodyCall(call, b, spawn, r1, r2, r3) ==
  CASE call = "setTranslation" ->
         [b EXCEPT !.pos = spawn, !.awake = TRUE]
    [] call = "setLinvel" ->
         [b EXCEPT !.linvel = Zero3, !.awake = TRUE]
    [] call = "setAngvel" ->
         [b EXCEPT !.angvel = Zero3, !.awake = TRUE]
    [] call = "setRotation" ->
         [b EXCEPT !.rot = setFromEuler(r1, r2, r3), !.awake = TRUE]
    [] call = "wakeUp" ->
         [b EXCEPT !.awake = TRUE]
    [] call = "applyImpulse" ->
         [b EXCEPT !.linvel = Add3(@, linearImpulse(r1, r2, r3)),
                   !.awake = TRUE]
    [] call = "applyTorqueImpulse" ->
         [b EXCEPT !.angvel = Add3(@, torqueImpulse(r1, r2, r3)),
                   !.awake = TRUE]

\* The next statement of roll.
launchStep ==
  /\ Len(launch.log) < Len(rollSteps)
  /\ LET call == rollSteps[Len(launch.log) + 1]
     IN  \E r1 \in Randoms, r2 \in Randoms, r3 \in Randoms :
           launch' =
             [launch EXCEPT
                !.body = bodyCall(call, @, launch.spawn, r1, r2, r3),
                !.log = Append(@, call),
                !.impulse = IF call = "applyImpulse"
                            THEN Add3(@, linearImpulse(r1, r2, r3)) ELSE @,
                !.torque = IF call = "applyTorqueImpulse"
                           THEN Add3(@, torqueImpulse(r1, r2, r3)) ELSE @]
  /\ lastOp' = Op("roll", 0)
  /\ UNCHANGED << diceRefs, rb, rolling, pendingValues, finalValues,
                  modalOpen, modalContent, launched, reported, reportVal,
                  emits, completions, interrupted, quat, resolved >>

NextLaunch == launchStep

SpecLaunch == InitLaunch /\ [][NextLaunch]_vars

\* ================================================================ claims
AllNull(p) == \A i \in Dice : p[i] = Null

\* C1  Aggregation completeness: finalValues is null unless every one of the
\* N dice has reported a settle since the most recent rollAll.
AggregationComplete ==
  finalValues # NoFinal => \A i \in Dice : reported[i] > 0

\* Dice 0 and 1 have reported in the current cycle, die 2 has not.
TwoOfThreeReported ==
  /\ reported[0] > 0 /\ reported[1] > 0 /\ reported[2] = 0
  /\ launched[2] /\ rolling[2]
  /\ finalValues = NoFinal

\* C2  Within one roll cycle the completion event happens exactly once, when
\* all dice have reported, and carries the dice's settle values in die-index
\* order; no die reports twice in a cycle.
CompletionOnce ==
  /\ completions <= 1
  /\ \A i \in Dice : reported[i] <= 1
  /\ (completions = 1) <=> (\A i \in Dice : reported[i] > 0)
  /\ (completions = 1) <=> (finalValues # NoFinal)
  /\ finalValues # NoFinal => finalValues = reportVal

\* The roll completed with 2, 5, 6 and a later frame polled a die.
CompletedTwoFiveSix ==
  /\ finalValues # NoFinal
  /\ finalValues = [i \in Dice |-> CASE i = 0 -> 2 [] i = 1 -> 5 [] OTHER -> 6]
  /\ completions = 1
  /\ lastOp.op = "poll" /\ ~lastOp.settled

\* C3  Reset semantics: right after rollAll every entry of pendingValues is
\* null and finalValues is null, whatever the state before.
ResetClears ==
  lastOp.op = "rollAll" => AllNull(pendingValues) /\ finalValues = NoFinal

\* rollAll has just run on a roll that had not completed: some dice had
\* reported and some were still in flight.
ResetOfPartialRoll ==
  lastOp.op = "rollAll" /\ lastOp.partial /\ interrupted

\* C4  Settle idempotence: a die emits at most one settle per launch.
SettleOnce == \A i \in Dice : emits[i] <= 1

\* A die that has settled was polled again while Idle.
PolledAfterSettle ==
  /\ lastOp.op = "poll" /\ ~lastOp.wasRolling /\ lastOp.hadBody
  /\ emits[lastOp.die] = 1
  /\ ~rolling[lastOp.die]

\* C5  Every non-null pendingValues[i] comes from a settle of die i that
\* happened after die i was launched by the most recent rollAll.
NoStaleSettle ==
  \A i \in Dice :
    pendingValues[i] # Null =>
      /\ launched[i]
      /\ reported[i] > 0
      /\ pendingValues[i] = reportVal[i]

\* rollAll interrupted a roll in flight and a die has settled since.
SettleAfterInterruptedRoll ==
  interrupted /\ \E i \in Dice : pendingValues[i] # Null

\* C6 (as claimed)  Right after rollAll no die is Idle.
RollAllLeavesNoDieIdle ==
  lastOp.op = "rollAll" => \A i \in Dice : rolling[i]

\* C6 (amended)  Right after rollAll every die whose handle and rigid body
\* are present is Rolling, and a die without them is left as it was: Idle.
RollAllLaunchesPresentDice ==
  lastOp.op = "rollAll" =>
    \A i \in Dice :
      /\ (diceRefs[i] /\ rb[i]) => (rolling[i] /\ launched[i])
      /\ ~(diceRefs[i] /\ rb[i]) => (~rolling[i] /\ ~launched[i])

\* rollAll has just run with all three dice mounted, interrupting a roll.
RollAllOnMountedDice ==
  /\ lastOp.op = "rollAll"
  /\ \A i \in Dice : diceRefs[i] /\ rb[i] /\ rolling[i]
  /\ interrupted

\* C7  A poll of a Rolling die with a body emits a settle and makes the die
\* Idle iff both speeds read on that tick are strictly below 0.05 (5 units);
\* otherwise it emits nothing and the die stays Rolling.
PollThreshold ==
  (lastOp.op = "poll" /\ lastOp.wasRolling /\ lastOp.hadBody) =>
    /\ lastOp.read
    /\ lastOp.settled <=> (lastOp.speed < 5 /\ lastOp.spin < 5)
    /\ rolling[lastOp.die] <=> ~lastOp.settled

\* A poll read a linear speed of exactly 0.05 with the spin below it.
PollAtThreshold ==
  /\ lastOp.op = "poll" /\ lastOp.read
  /\ lastOp.speed = 5 /\ lastOp.spin < 5
  /\ ~lastOp.settled /\ rolling[lastOp.die]

\* C8  A poll on a tick where the die has no body is skipped: no settle, and
\* phase, pendingValues and finalValues stay as they were; the die can be
\* polled again on the next tick.
PollWithoutBodySkipped ==
  /\ [][ (lastOp'.op = "poll" /\ ~lastOp'.hadBody) =>
           /\ ~lastOp'.settled /\ ~lastOp'.read
           /\ UNCHANGED << rolling, pendingValues, finalValues >> ]_vars
  /\ [](\A i \in Dice : diceRefs[i] => ENABLED useFrame(i))

\* A mounted die without a body was polled.
PolledWithoutBody ==
  lastOp.op = "poll" /\ ~lastOp.hadBody /\ ~rb[lastOp.die]

\* C9  Face-resolution correctness on the axis-aligned orientations.
Axes ==
  { <<1, 0, 0>>, <<-1, 0, 0>>, <<0, 1, 0>>, <<0, -1, 0>>,
    <<0, 0, 1>>, <<0, 0, -1>> }

Scale(n, v) == << n * v[1], n * v[2], n * v[3] >>

\* The orientation maps every local axis onto a world axis.
AxisAligned(q) ==
  \A a \in Axes : \E b \in Axes : applyQuaternion(a, q) = Scale(NormSq(q), b)

\* The face table as the claim states it.
TableValue(d) ==
  CASE d = << 0,  1,  0>> -> 1
    [] d = << 0, -1,  0>> -> 6
    [] d = << 1,  0,  0>> -> 4
    [] d = <<-1,  0,  0>> -> 3
    [] d = << 0,  0,  1>> -> 5
    [] d = << 0,  0, -1>> -> 2

FaceResolutionCorrect ==
  (resolved # Null /\ AxisAligned(quat)) =>
    \A d \in Axes :
      applyQuaternion(d, quat) = Scale(NormSq(quat), UP) =>
        resolved = TableValue(d)

\* A quarter turn about X that puts the local -Z face up was resolved.
ResolvedMinusZUp ==
  /\ resolved # Null
  /\ AxisAligned(quat)
  /\ quat.w # 0 /\ quat.x # 0
  /\ applyQuaternion(<<0, 0, -1>>, quat) = Scale(NormSq(quat), UP)

\* C10  A die's phase changes only by a launch of rollAll (to Rolling) and by
\* its own settling poll (Rolling to Idle).
PhaseChangesOnlyByLaunchAndSettle ==
  [][ \A i \in Dice :
        rolling'[i] # rolling[i] =>
          \/ /\ rolling'[i]
             /\ lastOp'.op = "rollAll"
             /\ launched'[i]
          \/ /\ ~rolling'[i]
             /\ lastOp'.op = "poll"
             /\ lastOp'.die = i
             /\ lastOp'.settled ]_vars

\* A die's result was recorded while another die was still Rolling.
SettledWhileOthersRoll ==
  /\ lastOp.op = "poll" /\ lastOp.settled
  /\ ~rolling[lastOp.die]
  /\ \E j \in Dice : j # lastOp.die /\ rolling[j]

\* C11  getDiceValue returns the value of the first faceMap entry, in table
\* order, whose upward score is the maximum of the six scores.
UpScore(k, q) == dot(applyQuaternion(faceMap[k].dir, q), UP)

IsMaxScore(k, q) == \A j \in 1 .. Len(faceMap) : UpScore(j, q) <= UpScore(k, q)

FirstMaxFaceWins ==
  resolved # Null =>
    \E k \in 1 .. Len(faceMap) :
      /\ IsMaxScore(k, quat)
      /\ \A j \in 1 .. (k - 1) : ~IsMaxScore(j, quat)
      /\ resolved = faceMap[k].value

\* An orientation with two faces sharing the maximum score was resolved, and
\* the face listed first won over the one listed later.
ResolvedTie ==
  /\ resolved # Null
  /\ \E j, k \in 1 .. Len(faceMap) :
       /\ j < k
       /\ IsMaxScore(j, quat) /\ IsMaxScore(k, quat)
       /\ resolved = faceMap[j].value

\* C12  The value a settle reports is the face resolved from the rotation
\* read on the tick on which both speeds were read below the threshold; it
\* goes into the die's slot of pendingValues and the die is Idle after the
\* same poll.  A poll that does not settle reads no rotation.
SettleReportsSameTickFace ==
  lastOp.op = "poll" =>
    /\ lastOp.settled =>
         /\ lastOp.read
         /\ lastOp.speed < 5 /\ lastOp.spin < 5
         /\ lastOp.rot \in BodyRotations
         /\ lastOp.value = getDiceValue(lastOp.rot)
         /\ pendingValues[lastOp.die] = lastOp.value
         /\ ~rolling[lastOp.die]
    /\ ~lastOp.settled => lastOp.rot = NoRotation

\* A die moving slowly settled on a quarter turn about X with face 5 up.
SettledOnQuarterTurn ==
  /\ lastOp.op = "poll" /\ lastOp.settled
  /\ lastOp.speed = 3
  /\ lastOp.rot = Quat(-1, 0, 0, 1)
  /\ lastOp.value = 5

\* C14  Recording a settle of die i writes slot i of pendingValues only, and
\* finalValues changes only if every slot is non-null after the write.
RecordWritesOwnSlot ==
  [][ (lastOp'.op = "poll" /\ lastOp'.settled) =>
        /\ pendingValues' =
             [pendingValues EXCEPT ![lastOp'.die] = lastOp'.value]
        /\ finalValues' # finalValues =>
             \A k \in Dice : pendingValues'[k] # Null ]_vars

\* The second of three dice has just been recorded: one slot was filled
\* before, one is still null, finalValues is null.
SecondSlotRecorded ==
  /\ lastOp.op = "poll" /\ lastOp.settled
  /\ \E j, k \in Dice :
       /\ j # lastOp.die /\ k # lastOp.die /\ j # k
       /\ pendingValues[j] # Null
       /\ pendingValues[j] # lastOp.value
       /\ pendingValues[k] = Null
  /\ finalValues = NoFinal

\* C15  When finalValues is non-null, every slot of pendingValues is
\* non-null and finalValues equals pendingValues entry by entry.
FinalMatchesPending ==
  finalValues # NoFinal =>
    /\ DOMAIN finalValues = Dice
    /\ \A i \in Dice :
         pendingValues[i] # Null /\ finalValues[i] = pendingValues[i]

\* A completed roll is on display while a later frame polls.
FinalOnDisplay ==
  /\ finalValues # NoFinal
  /\ \A i \in Dice : pendingValues[i] # Null
  /\ lastOp.op = "poll" /\ ~lastOp.read

\* C17  The modal is opened only by a completion event whose three values
\* sum to 3, and rollAll closes it and clears its content.
ModalOnlyOnTripleOne ==
  /\ [][ (~modalOpen /\ modalOpen') =>
           /\ lastOp'.op = "poll" /\ lastOp'.settled
           /\ finalValues = NoFinal /\ finalValues' # NoFinal
           /\ \A i \in Dice : finalValues'[i] = 1
           /\ modalContent' = "congrats" ]_vars
  /\ [](modalOpen =>
          finalValues # NoFinal /\ \A i \in Dice : finalValues[i] = 1)
  /\ [](lastOp.op = "rollAll" => ~modalOpen /\ modalContent = "")

\* The modal is open on a roll of three ones.
ModalOpenOnTripleOne ==
  /\ modalOpen /\ modalContent = "congrats"
  /\ finalValues # NoFinal
  /\ \A i \in Dice : finalValues[i] = 1

\* C18  Every slot of pendingValues is null or one of 1..6, and finalValues,
\* when non-null, has N entries, each in 1..6.
ValuesAreFaces ==
  /\ \A i \in Dice : pendingValues[i] = Null \/ pendingValues[i] \in 1 .. 6
  /\ finalValues # NoFinal =>
       /\ DOMAIN finalValues = Dice
       /\ Cardinality(DOMAIN finalValues) = N
       /\ \A i \in Dice : finalValues[i] \in 1 .. 6

\* A completed roll shows the faces 2 and 6, resolved from -Z up and -Y up.
FinalShowsTwoAndSix ==
  /\ finalValues # NoFinal
  /\ \E i, j \in Dice : finalValues[i] = 2 /\ finalValues[j] = 6

\* C13  launch on a present body: the body is at its spawn with zero linear
\* and angular velocity before the rotation is set, it is woken next, and
\* only then one linear impulse and one torque impulse are applied, so the
\* velocities after the launch are those of the two impulses alone.
Calls(c) == Cardinality({ k \in 1 .. Len(launch.log) : launch.log[k] = c })

Before(c, d) ==
  \A k \in 1 .. Len(launch.log) :
    launch.log[k] = d => \E j \in 1 .. (k - 1) : launch.log[j] = c

LaunchOrder ==
  /\ Before("setTranslation", "setRotation")
  /\ Before("setLinvel", "setRotation")
  /\ Before("setAngvel", "setRotation")
  /\ Before("setRotation", "wakeUp")
  /\ Before("wakeUp", "applyImpulse")
  /\ Before("applyImpulse", "applyTorqueImpulse")
  /\ (Calls("setRotation") = 1 /\ Calls("applyImpulse") = 0) =>
       /\ launch.body.pos = launch.spawn
       /\ launch.body.linvel = Zero3
       /\ launch.body.angvel = Zero3
  /\ Calls("wakeUp") = 1 => launch.body.awake
  /\ Len(launch.log) = 7 =>
       /\ Calls("applyImpulse") = 1
       /\ Calls("applyTorqueImpulse") = 1
       /\ launch.body.pos = launch.spawn
       /\ launch.body.linvel = launch.impulse
       /\ launch.body.angvel = launch.torque
       /\ launch.impulse[2] >= 2000
       /\ launch.body.awake

\* A body that was still moving from an earlier throw has been launched.
LaunchedMovingBody ==
  /\ Len(launch.log) = 7
  /\ launch.before.linvel # Zero3 /\ launch.before.angvel # Zero3
  /\ launch.before.pos # launch.spawn
  /\ launch.body.linvel = launch.impulse
  /\ launch.impulse[1] # 0

\* C16  Roll completion: if rollAll is not called again, a roll that
\* launched all dice ends with finalValues non-null once every die has come
\* to rest; a die leaves Rolling only by a poll that read both speeds below
\* the threshold, and nothing else completes a roll.
AllLaunched == \A i \in Dice : launched[i]

====
